---- MODULE Spec2Model ----
(***************************************************************************)
(* Model of rpi_fb_capture's port process (src/src/main.c): the capture    *)
(* daemon loop of main(), the command parser handle_stdin() working on     *)
(* the request buffer of struct capture_info, and the frames written to    *)
(* stdout.                                                                 *)
(***************************************************************************)
EXTENDS Integers, Naturals, Sequences, FiniteSets, TLC

VARIABLES
    info,       \* struct capture_info of main()
    pc,         \* position of the process in main()
    errmsg,     \* diagnostic of err()/errx(), "" while none was raised
    stdin,      \* bytes the consumer has written and the daemon has not read
    stdin_open, \* FALSE once the consumer has closed its end of the pipe
    stdout,     \* frames written to stdout, oldest first
    backend,    \* state of the capture backend
    nwritten,   \* number of command frames the consumer has written
    call,       \* record of the latest handle_stdin call
    unparsed,   \* received bytes that belong to no dispatched command
    reassembly, \* command reassembly: the one-read delivery and the split one
    enc         \* the encoders at work on one captured frame

vars == <<info, pc, errmsg, stdin, stdin_open, stdout, backend, nwritten,
          call, unparsed, reassembly, enc>>

----------------------------------------------------------------------------
(* Bounds of the model *)

\* Number of command frames the consumer writes in one behaviour.
MaxWrites == 2

\* Number of commands in a sequence delivered for command reassembly.
MaxCommands == 2

\* Widest and tallest captured frame, in units of 8 pixels, and the widest
\* row padding (capture_stride - capture_width).
MaxWidth8 == 2

MaxHeight8 == 2

MaxPad == 1

----------------------------------------------------------------------------
(* Program constants *)

\* Capacity of request_buffer (capture.h).
MAX_REQUEST_BUFFER_SIZE == 16

\* Default 8-bit monochrome threshold set by initialize().
DefaultThreshold == 25

\* Payload length of the capability frame.
CaptureInfoLength == 36

\* Value of DITHERING_NONE (dithering.h).
DITHERING_NONE == 0

----------------------------------------------------------------------------
(* Sequence helpers *)

Take(s, n) == SubSeq(s, 1, n)

Drop(s, n) == SubSeq(s, n + 1, Len(s))

Last(s) == s[Len(s)]

RECURSIVE Flatten(_)
Flatten(ss) == IF ss = <<>> THEN <<>> ELSE Head(ss) \o Flatten(Tail(ss))

----------------------------------------------------------------------------
(* set_mono_threshold, set_dithering *)

\* The green threshold shifted like the 5-bit components.
set_mono_threshold_Green5(i, threshold) ==
    [i EXCEPT !.mono_threshold_r5 = threshold \div 8,
              !.mono_threshold_g6 = (threshold \div 8) * 32,
              !.mono_threshold_b5 = (threshold \div 8) * 2048]

set_mono_threshold(i, threshold) ==
    [i EXCEPT !.mono_threshold_r5 = threshold \div 8,
              !.mono_threshold_g6 = (threshold \div 4) * 32,
              !.mono_threshold_b5 = (threshold \div 8) * 2048]

set_dithering(i, value) == [i EXCEPT !.dithering = value]

----------------------------------------------------------------------------
(* struct capture_info *)

\* memset(info, 0, sizeof(*info))
ZeroInfo ==
    [request_buffer    |-> [k \in 0..(MAX_REQUEST_BUFFER_SIZE - 1) |-> 0],
     request_buffer_ix |-> 0,
     send_snapshot     |-> 0,
     mono_threshold_r5 |-> 0,
     mono_threshold_g6 |-> 0,
     mono_threshold_b5 |-> 0,
     dithering         |-> 0,
     buffer            |-> "null",
     work              |-> "null",
     dithering_buffer  |-> "null"]

\* initialize() leaving the thresholds as memset() set them.
InitializedInfo_NoThreshold ==
    [ZeroInfo EXCEPT !.buffer = "allocated",
                     !.work = "allocated",
                     !.dithering_buffer = "allocated"]

\* initialize() after capture_initialize() succeeded
InitializedInfo ==
    [set_mono_threshold(ZeroInfo, DefaultThreshold)
        EXCEPT !.buffer = "allocated",
               !.work = "allocated",
               !.dithering_buffer = "allocated"]

\* finalize() forgetting free(info->work)
finalize_LeaksWork(i) ==
    [i EXCEPT !.buffer = "freed",
              !.dithering_buffer = "freed"]

\* finalize()
finalize(i) ==
    [i EXCEPT !.buffer = "freed",
              !.work = "freed",
              !.dithering_buffer = "freed"]

\* The configuration a command may change.
Config(i) ==
    [send_snapshot     |-> i.send_snapshot,
     mono_threshold_r5 |-> i.mono_threshold_r5,
     mono_threshold_g6 |-> i.mono_threshold_g6,
     mono_threshold_b5 |-> i.mono_threshold_b5,
     dithering         |-> i.dithering]

\* request_buffer[0 .. request_buffer_ix)
Buffered(i) == [k \in 1..i.request_buffer_ix |-> i.request_buffer[k - 1]]

----------------------------------------------------------------------------
(* handle_stdin *)

\* The count without the byte handle_stdin keeps free.
ReadCount_NoReserve(i) == MAX_REQUEST_BUFFER_SIZE - i.request_buffer_ix

\* Third argument of read(): the room left in request_buffer.
ReadCount(i) == MAX_REQUEST_BUFFER_SIZE - i.request_buffer_ix - 1

\* read() stored data at request_buffer[request_buffer_ix ...]
ReadInto(i, data) ==
    [i EXCEPT !.request_buffer =
                  [k \in DOMAIN i.request_buffer |->
                      IF k >= i.request_buffer_ix
                         /\ k < i.request_buffer_ix + Len(data)
                      THEN data[k - i.request_buffer_ix + 1]
                      ELSE i.request_buffer[k]],
              !.request_buffer_ix = i.request_buffer_ix + Len(data)]

\* The header check looking at the first reserved byte only.
BadHeader_FirstByteOnly(i) == i.request_buffer[0] # 0

\* Non-zero reserved bytes at the head of the buffer.
BadHeader(i) ==
    \/ i.request_buffer[0] # 0
    \/ i.request_buffer[1] # 0
    \/ i.request_buffer[2] # 0

\* uint8_t len = 4 + info->request_buffer[3];
CommandLen(i) == (4 + i.request_buffer[3]) % 256

\* The switch with a request that is queued instead of overwritten.
Dispatch_KeepsPending(i) ==
    LET cmd == i.request_buffer[4] IN
    CASE cmd \in 1..5 -> IF i.send_snapshot = 0
                         THEN [i EXCEPT !.send_snapshot = cmd]
                         ELSE i
      [] cmd = 6      -> set_mono_threshold(i, i.request_buffer[5])
      [] cmd = 7      -> set_dithering(i, i.request_buffer[5])
      [] OTHER        -> i

\* The switch with every code but 6 and 7 taken for a snapshot request.
Dispatch_NoRangeCheck(i) ==
    LET cmd == i.request_buffer[4] IN
    CASE cmd = 6      -> set_mono_threshold(i, i.request_buffer[5])
      [] cmd = 7      -> set_dithering(i, i.request_buffer[5])
      [] OTHER        -> [i EXCEPT !.send_snapshot = cmd]

\* The switch on request_buffer[4].
Dispatch(i) ==
    LET cmd == i.request_buffer[4] IN
    CASE cmd \in 1..5 -> [i EXCEPT !.send_snapshot = cmd]
      [] cmd = 6      -> set_mono_threshold(i, i.request_buffer[5])
      [] cmd = 7      -> set_dithering(i, i.request_buffer[5])
      [] OTHER        -> i

\* memmove(request_buffer, request_buffer + len, n)
Memmove(buf, len, n) ==
    [k \in DOMAIN buf |-> IF k < n THEN buf[k + len] ELSE buf[k]]

\* The buffer emptied after a command, the bytes behind it lost.
Consume_DropsRest(i, len) == [i EXCEPT !.request_buffer_ix = 0]

\* request_buffer_ix -= len, then the memmove when bytes remain.
Consume(i, len) ==
    LET ix == i.request_buffer_ix - len IN
    [i EXCEPT !.request_buffer_ix = ix,
              !.request_buffer = IF ix > 0
                                 THEN Memmove(i.request_buffer, len, ix)
                                 ELSE i.request_buffer]

\* The indices of request_buffer one turn of the loop reads: the header, the
\* length, the code and, for codes 6 and 7, the argument.
IndicesRead(i) ==
    {0, 1, 2, 3, 4} \cup (IF i.request_buffer[4] \in {6, 7} THEN {5} ELSE {})

\* What one dispatched command did.
DispatchRecord(i, j) ==
    [header |-> <<i.request_buffer[0], i.request_buffer[1],
                  i.request_buffer[2]>>,
     L      |-> i.request_buffer[3],
     code   |-> i.request_buffer[4],
     arg    |-> i.request_buffer[5],
     ix     |-> i.request_buffer_ix,
     ixnext |-> j.request_buffer_ix,
     read   |-> IndicesRead(i),
     pre    |-> Config(i),
     post   |-> Config(j)]

\* The while loop of handle_stdin.  A command of len 0 leaves the buffer
\* and the index as they are, so the loop never ends: "hung".
RECURSIVE CommandLoop(_, _)
CommandLoop(i, log) ==
    IF i.request_buffer_ix < 5
    THEN [info |-> i, log |-> log, status |-> "returned"]
    ELSE IF BadHeader(i)
    THEN [info |-> i, log |-> log, status |-> "Unexpected command"]
    ELSE IF i.request_buffer_ix < CommandLen(i)
    THEN [info |-> i, log |-> log, status |-> "returned"]
    ELSE LET j == Consume(Dispatch(i), CommandLen(i))
             l == Append(log, DispatchRecord(i, j))
         IN  IF CommandLen(i) = 0
             THEN [info |-> j, log |-> l, status |-> "hung"]
             ELSE CommandLoop(j, l)

\* handle_stdin() when read() returned data (amount_read > 0).
handle_stdin(i, data) == CommandLoop(ReadInto(i, data), <<>>)

----------------------------------------------------------------------------
(* send_snapshot *)

Encoder(snapshot) ==
    CASE snapshot \in {1, 2} -> "rgb24"
      [] snapshot = 3        -> "rgb565"
      [] snapshot = 4        -> "mono"
      [] snapshot = 5        -> "mono_rotate_flip"
      [] OTHER               -> "none"

\* Only the row-major encoder goes through dithering_apply().
Dithers_RowMajorOnly(i) ==
    /\ Encoder(i.send_snapshot) = "mono"
    /\ i.dithering # DITHERING_NONE

\* The encoder takes its branch through dithering_apply().
Dithers(i) ==
    /\ Encoder(i.send_snapshot) \in {"mono", "mono_rotate_flip"}
    /\ i.dithering # DITHERING_NONE

\* The calls send_snapshot() makes on the engine before it writes.
EngineCalls(i) == IF Dithers(i) THEN <<"dithering_apply">> ELSE <<>>

\* The calls of a send_snapshot() that wrote its frame.
Written(i) ==
    IF Encoder(i.send_snapshot) = "none" THEN <<>>
    ELSE EngineCalls(i) \o <<"write_stdout">>

\* The frame encoded with the thresholds and dithering mode that were in
\* effect when the snapshot command was dispatched.
Frame_AtRequest(i) ==
    LET snaps == SelectSeq(call.log, LAMBDA e : e.code \in 1..5)
        c     == snaps[Len(snaps)].post
    IN  [kind      |-> Encoder(i.send_snapshot),
         threshold |-> <<c.mono_threshold_r5, c.mono_threshold_g6,
                         c.mono_threshold_b5>>,
         dithering |-> c.dithering]

\* The frame send_snapshot() writes: its encoder, and the threshold
\* components and dithering mode the encoder read from info.
Frame(i) ==
    [kind      |-> Encoder(i.send_snapshot),
     threshold |-> <<i.mono_threshold_r5, i.mono_threshold_g6,
                     i.mono_threshold_b5>>,
     dithering |-> i.dithering]

----------------------------------------------------------------------------
(* The consumer *)

SnapshotCodes == 1..5

\* Well-formed commands of the protocol.
ValidCommands ==
    {<<0, 0, 0, 1, c>> : c \in SnapshotCodes}
    \cup {<<0, 0, 0, 2, 6, t>> : t \in {255}}
    \cup {<<0, 0, 0, 2, 7, d>> : d \in {1}}
    \cup {<<0, 0, 0, 1, 9>>}

\* Other byte strings a consumer can write.
OtherFrames ==
    { <<0, 0, 0, 1, 6>>,
      <<0, 0, 0, 0>>,
      <<0, 0, 0, 252, 1>>,
      <<0, 0, 0, 253, 3>>,
      <<0, 1, 0, 1, 2>>,
      <<0, 0, 0, 12, 9, 1, 1, 1, 1, 1, 1, 1, 1, 1, 1>> }

ConsumerFrames == ValidCommands \cup OtherFrames

----------------------------------------------------------------------------
(* History of the run: what the latest handle_stdin call did, and          *)
(* which received bytes the wire format assigns to no dispatched command.   *)

NoCall == [log |-> <<>>, frames |-> 0, status |-> "none", events |-> <<>>]

\* No frame is in the hands of the encoders.
NoEnc == [stage |-> "none"]

NoReassembly == [one |-> <<>>, pairs |-> <<>>, reads |-> 0]

\* The (code, argument) pairs a call dispatched; only codes 6 and 7 take an
\* argument.
Pairs(log) ==
    [k \in 1..Len(log) |->
        IF log[k].code \in {6, 7} THEN <<log[k].code, log[k].arg>>
        ELSE <<log[k].code>>]

\* The split delivery of command reassembly made one more read.
Delivered(ra, log) ==
    IF ra = NoReassembly THEN ra
    ELSE [ra EXCEPT !.pairs = @ \o Pairs(log), !.reads = @ + 1]

\* A dispatched command owns L + 4 bytes of the stream; those not received
\* yet are owed.
Claim(u, L) ==
    IF Len(u.bytes) >= L + 4
    THEN [u EXCEPT !.bytes = Drop(u.bytes, L + 4)]
    ELSE [bytes |-> <<>>, owed |-> u.owed + (L + 4 - Len(u.bytes))]

RECURSIVE ClaimAll(_, _)
ClaimAll(u, log) ==
    IF log = <<>> THEN u ELSE ClaimAll(Claim(u, Head(log).L), Tail(log))

Receive(u, data) ==
    LET k == IF u.owed < Len(data) THEN u.owed ELSE Len(data) IN
    [bytes |-> u.bytes \o Drop(data, k), owed |-> u.owed - k]

----------------------------------------------------------------------------
(* The daemon: main() *)

Init ==
    /\ info = ZeroInfo
    /\ pc = "main"
    /\ errmsg = ""
    /\ stdin = <<>>
    /\ stdin_open = TRUE
    /\ stdout = <<>>
    /\ backend = "none"
    /\ nwritten = 0
    /\ call = NoCall
    /\ unparsed = [bytes |-> <<>>, owed |-> 0]
    /\ reassembly = NoReassembly
    /\ enc = NoEnc

\* err(EXIT_FAILURE, msg) / errx(EXIT_FAILURE, msg)
Err(msg) ==
    /\ pc' = "exit_failure"
    /\ errmsg' = msg

\* Numbers of arguments main() can be started with.
Argcs == 1..5

\* if (argc != 4) errx(EXIT_FAILURE, ...)
Main ==
    /\ pc = "main"
    /\ \E argc \in Argcs :
          IF argc # 4
          THEN Err("rpi_fb_capture <display> <w> <h>\n")
          ELSE pc' = "initialize" /\ UNCHANGED errmsg
    /\ UNCHANGED <<info, stdin, stdin_open, stdout, backend, nwritten, call,
                   unparsed, reassembly, enc>>

\* initialize() returned 0.
Initialize ==
    /\ pc = "initialize"
    /\ info' = InitializedInfo
    /\ backend' = "initialized"
    /\ pc' = "emit_capture_info"
    /\ UNCHANGED <<errmsg, stdin, stdin_open, stdout, nwritten, call,
                   unparsed, reassembly, enc>>

\* capture_initialize() failed: initialize() returned -1.
InitializeFails ==
    /\ pc = "initialize"
    /\ Err("capture initialization failed")
    /\ UNCHANGED <<info, stdin, stdin_open, stdout, backend, nwritten, call,
                   unparsed, reassembly, enc>>

\* emit_capture_info()
EmitCaptureInfo ==
    /\ pc = "emit_capture_info"
    /\ stdout' = Append(stdout, [kind |-> "capture_info",
                                 length |-> CaptureInfoLength])
    /\ pc' = "poll"
    /\ UNCHANGED <<info, errmsg, stdin, stdin_open, backend, nwritten, call,
                   unparsed, reassembly, enc>>

\* write() returned less than asked for in write_stdout().
WriteFails ==
    /\ pc \in {"emit_capture_info", "send_snapshot"}
    /\ Err("write")
    /\ call' = IF pc = "send_snapshot"
               THEN [call EXCEPT !.events = @ \o EngineCalls(info)]
               ELSE call
    /\ UNCHANGED <<info, stdin, stdin_open, stdout, backend, nwritten,
                   unparsed, reassembly, enc>>

\* The consumer writes a command frame while the daemon waits in poll().
ConsumerWrite ==
    /\ pc = "poll"
    /\ stdin_open
    /\ nwritten < MaxWrites
    /\ \E frame \in ConsumerFrames : stdin' = stdin \o frame
    /\ nwritten' = nwritten + 1
    /\ UNCHANGED <<info, pc, errmsg, stdin_open, stdout, backend, call,
                   unparsed, reassembly, enc>>

\* The consumer closes its end of the pipe.
ConsumerClose ==
    /\ pc = "poll"
    /\ stdin_open
    /\ stdin_open' = FALSE
    /\ UNCHANGED <<info, pc, errmsg, stdin, stdout, backend, nwritten, call,
                   unparsed, reassembly, enc>>

\* poll() reports POLLIN for buffered bytes and POLLHUP for a closed pipe.
Readable == stdin # <<>> \/ ~stdin_open

\* What read() can return: nothing for a count of 0, some of the bytes in
\* the pipe, 0 at end of stream, -1 on an error.
AmountsRead ==
    {-1} \cup
    (IF ReadCount(info) = 0 THEN {0}
     ELSE IF stdin # <<>>
     THEN {n \in 1..Len(stdin) : n <= ReadCount(info)}
     ELSE {0})

\* poll() returned with POLLIN or POLLHUP set: handle_stdin().
HandleStdin ==
    /\ pc = "poll"
    /\ Readable
    /\ \E amount_read \in AmountsRead :
         IF amount_read < 0
         THEN /\ Err("Error reading stdin")
              /\ UNCHANGED <<info, stdin, backend, call, unparsed,
                             reassembly>>
         ELSE IF amount_read = 0
         THEN /\ info' = finalize(info)
              /\ backend' = "finalized"
              /\ pc' = "exit_success"
              /\ UNCHANGED <<errmsg, stdin, call, unparsed, reassembly>>
         ELSE LET data == Take(stdin, amount_read)
                  r    == handle_stdin(info, data)
              IN  /\ info' = r.info
                  /\ stdin' = Drop(stdin, amount_read)
                  /\ call' = [log |-> r.log, frames |-> Len(stdout),
                              status |-> r.status, events |-> <<>>]
                  /\ unparsed' = ClaimAll(Receive(unparsed, data), r.log)
                  /\ IF r.status = "returned"
                     THEN pc' = "check_snapshot" /\ UNCHANGED errmsg
                     ELSE IF r.status = "hung"
                     THEN pc' = "hung" /\ UNCHANGED errmsg
                     ELSE Err(r.status)
                  /\ reassembly' = Delivered(reassembly, r.log)
                  /\ UNCHANGED backend
    /\ UNCHANGED <<stdin_open, stdout, nwritten, enc>>

\* poll() failed.
PollFails ==
    /\ pc = "poll"
    /\ Err("poll")
    /\ UNCHANGED <<info, stdin, stdin_open, stdout, backend, nwritten, call,
                   unparsed, reassembly, enc>>

\* poll() returned with neither POLLIN nor POLLHUP: handle_stdin() is skipped.
PollOther ==
    /\ pc = "poll"
    /\ ~Readable
    /\ call' = [log |-> <<>>, frames |-> Len(stdout), status |-> "skipped",
                events |-> <<>>]
    /\ pc' = "check_snapshot"
    /\ UNCHANGED <<info, errmsg, stdin, stdin_open, stdout, backend, nwritten,
                   unparsed, reassembly, enc>>

\* if (info.send_snapshot) capture(&info);
Capture ==
    /\ pc = "check_snapshot"
    /\ info.send_snapshot # 0
    /\ call' = [call EXCEPT !.events = Append(@, "capture")]
    /\ pc' = "send_snapshot"
    /\ UNCHANGED <<info, errmsg, stdin, stdin_open, stdout, backend, nwritten,
                   unparsed, reassembly, enc>>

\* No snapshot is pending: back to poll().
NoSnapshot ==
    /\ pc = "check_snapshot"
    /\ info.send_snapshot = 0
    /\ pc' = "poll"
    /\ UNCHANGED <<info, errmsg, stdin, stdin_open, stdout, backend, nwritten,
                   call, unparsed, reassembly, enc>>

\* The cycle without info.send_snapshot = 0.
SendSnapshot_KeepsRequest ==
    /\ pc = "send_snapshot"
    /\ stdout' = IF Encoder(info.send_snapshot) = "none"
                 THEN stdout
                 ELSE Append(stdout, Frame(info))
    /\ call' = [call EXCEPT !.events = @ \o Written(info)]
    /\ pc' = "poll"
    /\ UNCHANGED <<info, errmsg, stdin, stdin_open, backend, nwritten,
                   unparsed, reassembly, enc>>

\* send_snapshot(&info); info.send_snapshot = 0;
SendSnapshot ==
    /\ pc = "send_snapshot"
    /\ stdout' = IF Encoder(info.send_snapshot) = "none"
                 THEN stdout
                 ELSE Append(stdout, Frame(info))
    /\ info' = [info EXCEPT !.send_snapshot = 0]
    /\ call' = [call EXCEPT !.events = @ \o Written(info)]
    /\ pc' = "poll"
    /\ UNCHANGED <<errmsg, stdin, stdin_open, backend, nwritten,
                   unparsed, reassembly, enc>>

Next ==
    \/ Main
    \/ Initialize
    \/ InitializeFails
    \/ EmitCaptureInfo
    \/ WriteFails
    \/ ConsumerWrite
    \/ ConsumerClose
    \/ HandleStdin
    \/ PollFails
    \/ PollOther
    \/ Capture
    \/ NoSnapshot
    \/ SendSnapshot

Spec == Init /\ [][Next]_vars

----------------------------------------------------------------------------
(* Command reassembly: the daemon, started up, is handed a sequence of     *)
(* well-formed commands; the model delivers it over reads of any sizes and  *)
(* keeps the outcome of handle_stdin on the same bytes delivered at once.   *)

CommandSequences ==
    UNION {[1..n -> ValidCommands] : n \in 1..MaxCommands}

StartedInfo == InitializedInfo

InitReassembly ==
    \E cmds \in CommandSequences :
        /\ Len(Flatten(cmds)) <= ReadCount(StartedInfo)
        /\ info = StartedInfo
        /\ pc = "poll"
        /\ errmsg = ""
        /\ stdin = Flatten(cmds)
        /\ stdin_open = TRUE
        /\ stdout = <<[kind |-> "capture_info", length |-> CaptureInfoLength]>>
        /\ backend = "initialized"
        /\ nwritten = Len(cmds)
        /\ call = NoCall
        /\ unparsed = [bytes |-> <<>>, owed |-> 0]
        /\ reassembly = [one   |-> handle_stdin(StartedInfo, Flatten(cmds)),
                         pairs |-> <<>>,
                         reads |-> 0]
        /\ enc = NoEnc

NextReassembly ==
    \/ HandleStdin
    \/ Capture
    \/ NoSnapshot
    \/ SendSnapshot

SpecReassembly == InitReassembly /\ [][NextReassembly]_vars

----------------------------------------------------------------------------
(* C1 *)

\* C1: a sequence of well-formed commands delivered over two or more reads,
\* split anywhere, dispatches the same (code, argument) pairs in the same
\* order and ends with the same threshold components, dithering mode and
\* buffered bytes as the same bytes delivered in one read.
C1_Reassembly ==
    (reassembly # NoReassembly /\ stdin = <<>> /\ reassembly.reads >= 2)
    => /\ reassembly.one.status = "returned"
       /\ call.status = "returned"
       /\ reassembly.pairs = Pairs(reassembly.one.log)
       /\ info.mono_threshold_r5 = reassembly.one.info.mono_threshold_r5
       /\ info.mono_threshold_g6 = reassembly.one.info.mono_threshold_g6
       /\ info.mono_threshold_b5 = reassembly.one.info.mono_threshold_b5
       /\ info.dithering = reassembly.one.info.dithering
       /\ info.request_buffer_ix = reassembly.one.info.request_buffer_ix
       /\ Buffered(info) = Buffered(reassembly.one.info)

\* Two commands, the second a threshold command cut in the middle of the
\* read, were delivered over three reads.
C1_Witness ==
    /\ reassembly # NoReassembly
    /\ stdin = <<>>
    /\ reassembly.reads >= 3
    /\ Len(reassembly.pairs) = 2
    /\ reassembly.pairs[2] = <<6, 255>>
    /\ Len(call.log) = 1

----------------------------------------------------------------------------
(* C2 *)

\* handle_stdin has returned to main() and has not been called again.
Returned ==
    /\ call.status = "returned"
    /\ pc \in {"check_snapshot", "send_snapshot", "poll"}

\* C2: after every return of handle_stdin the buffered bytes are exactly the
\* received bytes that belong to no dispatched command (a command owning
\* L + 4 bytes of the stream), in order, and no command can be extracted
\* from them: fewer than 5 bytes, or fewer than the head command declares.
C2_BufferIsUnparsedSuffix ==
    Returned
    => /\ unparsed.owed = 0
       /\ Buffered(info) = unparsed.bytes
       /\ \/ info.request_buffer_ix < 5
          \/ info.request_buffer_ix < info.request_buffer[3] + 4

----------------------------------------------------------------------------
(* C3 *)

\* C3: whatever the length byte L, a command is dispatched only with at
\* least 5 and at least L + 4 bytes buffered, and its dispatch takes exactly
\* L + 4 bytes off the front of the buffer.
C3_DispatchTakesDeclaredLength ==
    \A k \in 1..Len(call.log) :
        /\ call.log[k].ix >= 5
        /\ call.log[k].ix >= call.log[k].L + 4
        /\ call.log[k].ix - call.log[k].ixnext = call.log[k].L + 4

----------------------------------------------------------------------------
(* C4 *)

IsSnapshot(e) == e.code \in 1..5

\* The snapshot commands the latest handle_stdin call dispatched.
Snapshots == SelectSeq(call.log, IsSnapshot)

\* The encoder the protocol assigns to a snapshot code.
C4_EncoderOf(code) ==
    IF code \in {1, 2} THEN "rgb24"
    ELSE IF code = 3 THEN "rgb565"
    ELSE IF code = 4 THEN "mono"
    ELSE "mono_rotate_flip"

\* C4: a handle_stdin call that dispatched several snapshot commands and
\* returned is followed by exactly one image frame, written by the encoder
\* of the last of them; nothing is written for the earlier ones.
C4_LastWriteWins ==
    (call.status = "returned" /\ Len(Snapshots) >= 2)
    => /\ pc \in {"check_snapshot", "send_snapshot"}
          => /\ Len(stdout) = call.frames
             /\ info.send_snapshot = Last(Snapshots).code
       /\ pc = "poll"
          => /\ Len(stdout) = call.frames + 1
             /\ Last(stdout).kind = C4_EncoderOf(Last(Snapshots).code)
             /\ info.send_snapshot = 0

\* One read carried an RGB24 request and then a rotated monochrome one, and
\* the frame has been written.
C4_Witness ==
    /\ call.status = "returned"
    /\ Len(Snapshots) = 2
    /\ Snapshots[1].code = 2
    /\ Snapshots[2].code = 5
    /\ pc = "poll"
    /\ Len(stdout) = call.frames + 1

----------------------------------------------------------------------------
(* C5 *)

\* C5: while the daemon waits in poll() no snapshot is pending; a call of
\* handle_stdin is followed by at most one image frame, and by one only if
\* it dispatched a snapshot command.
C5_RequestClearedAfterOneFrame ==
    /\ pc = "poll" => info.send_snapshot = 0
    /\ pc = "send_snapshot" => info.send_snapshot # 0
    /\ call.status # "none"
       => /\ Len(stdout) <= call.frames + 1
          /\ Len(stdout) = call.frames + 1 => Len(Snapshots) >= 1
          /\ pc = "send_snapshot" => Len(Snapshots) >= 1 /\ Len(stdout) = call.frames
    /\ call.status = "none" => Len(stdout) <= 1

\* The daemon is back in poll() after the frame of a snapshot command went
\* out, with more input waiting.
C5_Witness ==
    /\ pc = "poll"
    /\ Len(Snapshots) = 1
    /\ Len(stdout) = call.frames + 1
    /\ Last(stdout).kind = "rgb565"
    /\ stdin # <<>>

----------------------------------------------------------------------------
(* C6 *)

\* The process has ended: nothing it owns changes any more.
Ended == pc \in {"exit_failure", "exit_success"}

\* One of the 3 bytes in front of the length byte is not zero.
ReservedNonZero ==
    \E k \in 0..2 : info.request_buffer[k] # 0

\* C6: a head of at least 5 buffered bytes with a non-zero reserved byte ends
\* the process with failure status; that command is not dispatched, nothing
\* after it is, and no frame is written any more, not even for a snapshot
\* requested earlier in the same call.
C6_BadHeaderIsFatal ==
    /\ []((info.request_buffer_ix >= 5 /\ ReservedNonZero)
          => /\ pc = "exit_failure"
             /\ errmsg = "Unexpected command"
             /\ call.status = "Unexpected command"
             /\ Len(stdout) = call.frames)
    /\ [](\A k \in 1..Len(call.log) : call.log[k].header = <<0, 0, 0>>)
    /\ [][Ended => (pc' = pc /\ stdout' = stdout /\ info' = info
                    /\ call' = call)]_vars

\* A snapshot command and a malformed header arrived in one read.
C6_Witness ==
    /\ pc = "exit_failure"
    /\ call.status = "Unexpected command"
    /\ Len(Snapshots) = 1
    /\ info.send_snapshot = 4
    /\ info.request_buffer_ix >= 5
    /\ ReservedNonZero

----------------------------------------------------------------------------
(* C7 *)

\* The zero-length read at end of stream.
EndOfStream == pc = "poll" /\ stdin = <<>> /\ ~stdin_open

\* C7: at end of stream the process leaves only through exit; when it exits
\* with success finalize has freed the three buffers and finalized the
\* backend, and that call dispatched nothing and wrote nothing, partial
\* command or not.
C7_EndOfStreamExits ==
    /\ [](pc = "exit_success"
          => /\ info.buffer = "freed"
             /\ info.work = "freed"
             /\ info.dithering_buffer = "freed"
             /\ backend = "finalized"
             /\ errmsg = "")
    /\ [][EndOfStream => pc' \in {"poll", "exit_success", "exit_failure"}]_vars
    /\ [][pc' = "exit_success"
          => /\ stdout' = stdout
             /\ call' = call
             /\ Config(info') = Config(info)
             /\ Buffered(info') = Buffered(info)]_vars

\* The consumer closed the pipe in the middle of a command.
C7_Witness ==
    /\ pc = "exit_success"
    /\ ~stdin_open
    /\ stdin = <<>>
    /\ info.request_buffer_ix = MAX_REQUEST_BUFFER_SIZE - 1
    /\ info.request_buffer[3] = 12

----------------------------------------------------------------------------
(* C8 *)

\* C8: the daemon exits with success only when the consumer has closed the
\* inbound channel.
C8_SuccessOnlyWhenClosed == pc = "exit_success" => ~stdin_open

----------------------------------------------------------------------------
(* C9 *)

\* C9: the fill index stays within 0 .. MAX_REQUEST_BUFFER_SIZE - 1, in
\* every state and at every step of the command loop.
C9_IndexInRange ==
    /\ info.request_buffer_ix \in 0..(MAX_REQUEST_BUFFER_SIZE - 1)
    /\ \A k \in 1..Len(call.log) :
          /\ call.log[k].ix \in 0..(MAX_REQUEST_BUFFER_SIZE - 1)
          /\ call.log[k].ixnext \in 0..(MAX_REQUEST_BUFFER_SIZE - 1)

\* The buffer is full: a command longer than the buffer is being received.
C9_Witness ==
    /\ pc = "poll"
    /\ info.request_buffer_ix = MAX_REQUEST_BUFFER_SIZE - 1
    /\ stdin # <<>>

----------------------------------------------------------------------------
(* C10 *)

Thresholds(c) ==
    <<c.mono_threshold_r5, c.mono_threshold_g6, c.mono_threshold_b5>>

\* C10: a command whose code is outside 1..7 changes neither the pending
\* request nor the thresholds nor the dithering mode, ends neither the loop
\* nor the process and causes no frame; codes 6 and 7 leave the pending
\* request alone, codes 1-5 the thresholds and the dithering mode.
C10_CommandFrame ==
    /\ \A k \in 1..Len(call.log) :
          LET e == call.log[k] IN
          /\ e.code \notin 1..7 => e.post = e.pre
          /\ e.code \in {6, 7} => e.post.send_snapshot = e.pre.send_snapshot
          /\ e.code \in 1..5
             => /\ Thresholds(e.post) = Thresholds(e.pre)
                /\ e.post.dithering = e.pre.dithering
    /\ (call.log # <<>> /\ \A k \in 1..Len(call.log) : ~IsSnapshot(call.log[k]))
       => /\ info.send_snapshot = 0
          /\ Len(stdout) = call.frames
    /\ (call.log # <<>> /\ Last(call.log).code \notin 1..7
        /\ Last(call.log).ixnext < 5)
       => call.status = "returned"

\* An unknown command was dispatched right after a dithering command, and
\* the daemon is back in poll().
C10_Witness ==
    /\ pc = "poll"
    /\ call.status = "returned"
    /\ Len(call.log) = 2
    /\ call.log[1].code = 7
    /\ call.log[2].code = 9
    /\ call.log[2].pre.dithering = 1
    /\ info.request_buffer_ix = 0

----------------------------------------------------------------------------
(* C11 *)

CapabilityFrame == [kind |-> "capture_info", length |-> 36]

\* C11: after a successful initialisation the first frame on stdout is the
\* capability frame with its 36-byte payload; it is written once, before any
\* byte of stdin is read and before any image frame, with the thresholds
\* derived from 25 (3, 192, 6144), dithering off and no snapshot pending.
\* When the backend fails to initialise no frame is written and the process
\* exits with failure.
C11_StartSequence ==
    /\ stdout # <<>>
       => /\ stdout[1] = CapabilityFrame
          /\ \A k \in 2..Len(stdout) : stdout[k].kind # "capture_info"
    /\ (call.status # "none" \/ info.request_buffer_ix > 0
        \/ unparsed.bytes # <<>>)
       => stdout # <<>>
    /\ (backend = "initialized" /\ call.status = "none")
       => /\ Len(stdout) <= 1
          /\ info.mono_threshold_r5 = 3
          /\ info.mono_threshold_g6 = 192
          /\ info.mono_threshold_b5 = 6144
          /\ info.dithering = 0
          /\ info.send_snapshot = 0
          /\ info.request_buffer_ix = 0
    /\ errmsg = "capture initialization failed"
       => /\ stdout = <<>>
          /\ pc = "exit_failure"
          /\ backend = "none"
          /\ call.status = "none"

\* The capability frame is out and a command waits unread in the pipe.
C11_Witness ==
    /\ pc = "poll"
    /\ stdout = <<CapabilityFrame>>
    /\ call.status = "none"
    /\ stdin # <<>>
    /\ info.mono_threshold_g6 = 192

----------------------------------------------------------------------------
(* The frame encoders.  A captured frame e carries the capture geometry    *)
(* (capture_width, capture_height, capture_stride), the frame buffer as a   *)
(* function of the pixel index, and the identity fields of the backend.     *)

\* A uint32_t, kept as its two 16-bit halves.
Uint32(n) == [hi |-> (n \div 65536) % 65536, lo |-> n % 65536]

\* The prefix with the least significant byte first.
add_packet_length_LittleEndian(size) ==
    <<size.lo % 256, (size.lo \div 256) % 256, size.hi % 256,
      (size.hi \div 256) % 256>>

\* out[0..3] of add_packet_length(out, size), size a uint32_t:
\* size >> 24, (size >> 16) & 0xff, (size >> 8) & 0xff, size & 0xff.
add_packet_length(size) ==
    <<(size.hi \div 256) % 256, size.hi % 256, (size.lo \div 256) % 256,
      size.lo % 256>>

\* The bytes of a uint16_t and of a uint32_t in memory (little-endian).
Bytes16(v) == <<v % 256, (v \div 256) % 256>>

Bytes32(v) ==
    <<v % 256, (v \div 256) % 256, (v \div 65536) % 256,
      (v \div 16777216) % 256>>

\* image[k]; a read past the end of the malloc'ed block returns the word
\* the heap holds at that place at that moment, e.heap[k].
Pixel(e, k) == IF k \in DOMAIN e.buffer THEN e.buffer[k] ELSE e.heap[k]

\* buffer[k] of a dithering buffer, with the same reads past its end.
Residual(buf, e, k) == IF k \in DOMAIN buf THEN buf[k] ELSE e.heap[k]

\* An int16_t read through a const uint16_t pointer.
AsUint16(v) == v % 65536

\* Number of turns of for (x = 0; x < n; x += 8).
Turns(n) == (n + 7) \div 8

\* *out = b0 | (b1 << 1) | ... | (b7 << 7)
Pack(b) ==
    b[0] + 2 * b[1] + 4 * b[2] + 8 * b[3] + 16 * b[4] + 32 * b[5]
    + 64 * b[6] + 128 * b[7]

\* The comparison turned around: on below the thresholds.
to_1bpp_Below(i, rgb565) ==
    IF \/ (rgb565 % 32) < i.mono_threshold_r5
       \/ ((rgb565 \div 32) % 64) * 32 < i.mono_threshold_g6
       \/ ((rgb565 \div 2048) % 32) * 2048 < i.mono_threshold_b5
    THEN 1 ELSE 0

\* to_1bpp(): rgb565 & 0x001f, rgb565 & 0x07e0, rgb565 & 0xf800 against the
\* pre-shifted thresholds.
to_1bpp(i, rgb565) ==
    IF \/ (rgb565 % 32) > i.mono_threshold_r5
       \/ ((rgb565 \div 32) % 64) * 32 > i.mono_threshold_g6
       \/ ((rgb565 \div 2048) % 32) * 2048 > i.mono_threshold_b5
    THEN 1 ELSE 0

\* dithering_apply(): one signed residual per pixel of the width x height
\* frame, row-major without stride padding, a function of the frame, the
\* thresholds and the engine's policy.
dithering_apply(i, e) ==
    [k \in 0..(e.capture_width * e.capture_height - 1) |->
        LET x  == k % e.capture_width
            y  == k \div e.capture_width
            on == to_1bpp(i, e.buffer[y * e.capture_stride + x])
        IN  IF (on = 1) # ((k + e.engine) % 3 = 0)
            THEN (IF k % 2 = 0 THEN -1 ELSE 255)
            ELSE 0]

emit_rgb24(i, e) ==
    LET width  == e.capture_width
        height == e.capture_height
        row(y) ==
            Flatten([x \in 1..width |->
                LET pixel == Pixel(e, y * e.capture_stride + (x - 1)) IN
                <<((pixel \div 2048) * 8) % 256,
                  (((pixel \div 32) % 64) * 4) % 256,
                  ((pixel % 32) * 8) % 256>>])
    IN  add_packet_length(Uint32(3 * width * height))
        \o Flatten([y \in 1..height |-> row(y - 1)])

emit_rgb565(i, e) ==
    LET width  == e.capture_width
        height == e.capture_height
        row(y) ==
            Flatten([x \in 1..width |->
                Bytes16(Pixel(e, y * e.capture_stride + (x - 1)))])
    IN  add_packet_length(Uint32(2 * width * height))
        \o Flatten([y \in 1..height |-> row(y - 1)])

\* Where emit_mono() reads bit k of byte g of row y: image advances by 8
\* per byte and by row_skip per row, the dithering buffer by 8 per byte.
MonoImageIndex(e, y, g, k) ==
    LET row_skip == e.capture_stride - e.capture_width IN
    y * (8 * Turns(e.capture_width) + row_skip) + 8 * g + k

MonoBufferIndex(e, y, g, k) == 8 * (y * Turns(e.capture_width) + g) + k

\* Where emit_mono_rotate_flip() reads bit k of byte j of column x.
ColumnImageIndex(e, x, j, k) ==
    x + 8 * j * e.capture_stride + k * e.capture_stride

ColumnBufferIndex(e, x, j, k) ==
    x + 8 * j * e.capture_width + e.capture_width * k

\* The places past the end of the frame buffer, or of the dithering buffer
\* when dithering is on, that emit_mono() reads.
BeyondMono(i, e) ==
    LET cells == (0..(e.capture_height - 1))
                 \X (0..(Turns(e.capture_width) - 1)) \X (0..7)
    IN  IF i.dithering = DITHERING_NONE
        THEN {MonoImageIndex(e, c[1], c[2], c[3]) : c \in cells}
             \ DOMAIN e.buffer
        ELSE {MonoBufferIndex(e, c[1], c[2], c[3]) : c \in cells}
             \ (0..(e.capture_width * e.capture_height - 1))

\* The same for emit_mono_rotate_flip().
BeyondMonoRotateFlip(i, e) ==
    LET cells == (0..(e.capture_width - 1))
                 \X (0..(Turns(e.capture_height) - 1)) \X (0..7)
    IN  IF i.dithering = DITHERING_NONE
        THEN {ColumnImageIndex(e, c[1], c[2], c[3]) : c \in cells}
             \ DOMAIN e.buffer
        ELSE {ColumnBufferIndex(e, c[1], c[2], c[3]) : c \in cells}
             \ (0..(e.capture_width * e.capture_height - 1))

\* emit_mono()
emit_mono(i, e) ==
    LET width    == e.capture_width
        height   == e.capture_height
        buffer   == dithering_apply(i, e)
        plain(y, g) ==
            [k \in 0..7 |-> to_1bpp(i, Pixel(e, MonoImageIndex(e, y, g, k)))]
        dithered(y, g) ==
            [k \in 0..7 |->
                IF Residual(buffer, e, MonoBufferIndex(e, y, g, k)) # 0
                THEN 1 ELSE 0]
        row(y) ==
            [g \in 1..Turns(width) |->
                Pack(IF i.dithering = DITHERING_NONE
                     THEN plain(y, g - 1)
                     ELSE dithered(y, g - 1))]
    IN  add_packet_length(Uint32((width * height) \div 8))
        \o Flatten([y \in 1..height |-> row(y - 1)])

\* The column encoder packing the topmost row of eight into bit 7.
emit_mono_rotate_flip_MsbFirst(i, e) ==
    LET width  == e.capture_width
        height == e.capture_height
        dithering_buffer == dithering_apply(i, e)
        plain(x, j) ==
            [k \in 0..7 |->
                to_1bpp(i, Pixel(e, ColumnImageIndex(e, x, j, 7 - k)))]
        dithered(x, j) ==
            [k \in 0..7 |->
                IF AsUint16(Residual(dithering_buffer, e,
                                     ColumnBufferIndex(e, x, j, 7 - k))) # 0
                THEN 1 ELSE 0]
        column(x) ==
            [j \in 1..Turns(height) |->
                Pack(IF i.dithering = DITHERING_NONE
                     THEN plain(x, j - 1)
                     ELSE dithered(x, j - 1))]
    IN  add_packet_length(Uint32((width * height) \div 8))
        \o Flatten([x \in 1..width |-> column(x - 1)])

\* emit_mono_rotate_flip(): one column after the other, each byte eight
\* pixels down the column.
emit_mono_rotate_flip(i, e) ==
    LET width  == e.capture_width
        height == e.capture_height
        dithering_buffer == dithering_apply(i, e)
        plain(x, j) ==
            [k \in 0..7 |->
                to_1bpp(i, Pixel(e, ColumnImageIndex(e, x, j, k)))]
        dithered(x, j) ==
            [k \in 0..7 |->
                IF AsUint16(Residual(dithering_buffer, e,
                                     ColumnBufferIndex(e, x, j, k))) # 0
                THEN 1 ELSE 0]
        column(x) ==
            [j \in 1..Turns(height) |->
                Pack(IF i.dithering = DITHERING_NONE
                     THEN plain(x, j - 1)
                     ELSE dithered(x, j - 1))]
    IN  add_packet_length(Uint32((width * height) \div 8))
        \o Flatten([x \in 1..width |-> column(x - 1)])

\* emit_capture_info(): the 16 bytes at backend_name and five 32-bit fields.
emit_capture_info(e) ==
    add_packet_length(Uint32(CaptureInfoLength))
    \o e.backend_name
    \o Bytes32(e.display_id)
    \o Bytes32(e.display_width)
    \o Bytes32(e.display_height)
    \o Bytes32(e.capture_width)
    \o Bytes32(e.capture_height)

----------------------------------------------------------------------------
(* The encoders at work: a backend hands over one captured frame and the   *)
(* encoders write it to stdout, byte for byte.                              *)

Widths == {7} \cup {8 * n : n \in 1..MaxWidth8}

Heights == {7} \cup {8 * n : n \in 1..MaxHeight8}

\* The capture sizes.  A frame with a dimension that is no multiple of 8 is
\* 8 pixels in the other one: every word an encoder reads past the end of
\* its buffers is a choice of its own.
Geometries ==
    {g \in Widths \X Heights :
        /\ g[1] % 8 = 0 \/ g[2] = 8
        /\ g[2] % 8 = 0 \/ g[1] = 8}

\* Pixels around the thresholds of set_mono_threshold(25): 3, 192 and 6144.
SamplePixels ==
    <<0, 31, 4, 3, 2016, 224, 192, 63488, 8192, 6144, 65535>>

Seeds == {0, 4}

\* What a word behind a malloc'ed block can be to the encoders: a word
\* that to_1bpp() and the test against 0 turn off, and one they turn on
\* whenever any word is on.
HeapWords == {0, 65535}

Engines == {0, 1}

SampleThresholds == {0, 25, 255}

DitheringModes == {DITHERING_NONE, 1}

\* Sizes up to 0xffffffff, among them 0x12345678 and 0x80000000.
SampleSizes ==
    {Uint32(n) : n \in {0, 36, 255, 256, 65535, 65536, 16777215, 16777216}}
    \cup {[hi |-> 4660, lo |-> 22136], [hi |-> 32768, lo |-> 0],
          [hi |-> 65535, lo |-> 65535]}

BackendName == [k \in 1..16 |-> IF k <= 3 THEN 96 + k ELSE 0]

\* What capture_initialize() and capture() left in capture_info.
CapturedFrame(w, h, stride, seed, engine) ==
    [stage          |-> "captured",
     capture_width  |-> w,
     capture_height |-> h,
     capture_stride |-> stride,
     buffer         |-> [k \in 0..(stride * h - 1) |->
                            SamplePixels[((k + seed) % Len(SamplePixels)) + 1]],
     heap           |-> <<>>,
     engine         |-> engine,
     backend_name   |-> BackendName,
     display_id     |-> 0,
     display_width  |-> 2 * w,
     display_height |-> 2 * h]

InitEncoders ==
    /\ \/ \E g \in Geometries, pad \in 0..MaxPad, seed \in Seeds,
            engine \in Engines, t \in SampleThresholds,
            d \in DitheringModes :
            /\ info = set_dithering(set_mono_threshold(InitializedInfo, t), d)
            /\ enc = CapturedFrame(g[1], g[2], g[1] + pad, seed, engine)
       \/ \E size \in SampleSizes :
            /\ info = InitializedInfo
            /\ enc = [stage |-> "size", size |-> size]
    /\ pc = "send_snapshot"
    /\ errmsg = ""
    /\ stdin = <<>>
    /\ stdin_open = TRUE
    /\ stdout = <<>>
    /\ backend = "initialized"
    /\ nwritten = 0
    /\ call = NoCall
    /\ unparsed = [bytes |-> <<>>, owed |-> 0]
    /\ reassembly = NoReassembly

\* write_stdout(info->work, out - info->work): one write of the whole frame.
write_stdout(kind, bytes) ==
    /\ stdout' = Append(stdout, [kind |-> kind, bytes |-> bytes])
    /\ UNCHANGED <<info, pc, errmsg, stdin, stdin_open, backend, nwritten,
                   call, unparsed, reassembly, enc>>

EmitCaptureInfoBytes ==
    /\ enc.stage = "captured"
    /\ stdout = <<>>
    /\ write_stdout("capture_info", emit_capture_info(enc))

EmitRgb24 ==
    /\ enc.stage = "captured"
    /\ stdout = <<>>
    /\ write_stdout("rgb24", emit_rgb24(info, enc))

EmitRgb565 ==
    /\ enc.stage = "captured"
    /\ stdout = <<>>
    /\ write_stdout("rgb565", emit_rgb565(info, enc))

\* The frame with the heap behind its buffers as an encoder finds it.
WithHeap(e, heap) == [e EXCEPT !.heap = heap]

\* The two monochrome encoders may both encode the frame, in either order.
\* Each finds behind the buffers whatever the heap holds at that time.
EmitMono ==
    /\ enc.stage = "captured"
    /\ \A k \in 1..Len(stdout) : stdout[k].kind = "mono_rotate_flip"
    /\ Len(stdout) <= 1
    /\ \E heap \in [BeyondMono(info, enc) -> HeapWords] :
          write_stdout("mono", emit_mono(info, WithHeap(enc, heap)))

EmitMonoRotateFlip ==
    /\ enc.stage = "captured"
    /\ \A k \in 1..Len(stdout) : stdout[k].kind = "mono"
    /\ Len(stdout) <= 1
    /\ \E heap \in [BeyondMonoRotateFlip(info, enc) -> HeapWords] :
          write_stdout("mono_rotate_flip",
                       emit_mono_rotate_flip(info, WithHeap(enc, heap)))

\* add_packet_length() on a size of its own.
AddPacketLength ==
    /\ enc.stage = "size"
    /\ enc' = [stage |-> "prefixed", size |-> enc.size,
               prefix |-> add_packet_length(enc.size)]
    /\ UNCHANGED <<info, pc, errmsg, stdin, stdin_open, stdout, backend,
                   nwritten, call, unparsed, reassembly>>

NextEncoders ==
    \/ EmitCaptureInfoBytes
    \/ EmitRgb24
    \/ EmitRgb565
    \/ EmitMono
    \/ EmitMonoRotateFlip
    \/ AddPacketLength

SpecEncoders == InitEncoders /\ [][NextEncoders]_vars

----------------------------------------------------------------------------
(* C12 *)

\* The length a consumer decodes from the first four bytes of a frame, most
\* significant byte first, as a uint32_t.
DecodedLength(bytes) ==
    [hi |-> bytes[1] * 256 + bytes[2], lo |-> bytes[3] * 256 + bytes[4]]

PayloadLength(bytes) == Len(bytes) - 4

IsMono(frame) == frame.kind \in {"mono", "mono_rotate_flip"}

\* C12: for every capture height and every capture width divisible by 8, a
\* frame written by either monochrome encoder, dithering on or off, has the
\* prefix width * height / 8 and a payload of exactly that many bytes.
C12_MonoFrameLength ==
    (enc.stage = "captured" /\ enc.capture_width % 8 = 0)
    => \A k \in 1..Len(stdout) :
          IsMono(stdout[k])
          => /\ DecodedLength(stdout[k].bytes)
                = Uint32((enc.capture_width * enc.capture_height) \div 8)
             /\ PayloadLength(stdout[k].bytes)
                = (enc.capture_width * enc.capture_height) \div 8

----------------------------------------------------------------------------
(* C13 *)

IsFramed(frame) == frame.kind \in {"capture_info", "rgb24", "rgb565"}

\* The payload length the wire format gives a frame of this kind.
C13_Length(kind) ==
    CASE kind = "capture_info" -> 36
      [] kind = "rgb24"        -> 3 * enc.capture_width * enc.capture_height
      [] kind = "rgb565"       -> 2 * enc.capture_width * enc.capture_height

\* C13: the capability, RGB24 and RGB565 frames are each one write of 4 + N
\* bytes: the first 4 bytes are N most significant byte first (decoding them
\* gives N back, for every N below 2^32) and the payload has N bytes, with
\* N = 36, 3 * width * height and 2 * width * height, for every width, height
\* and stride >= width.
C13_FramePrefix ==
    /\ enc.stage = "captured"
       => \A k \in 1..Len(stdout) :
             IsFramed(stdout[k])
             => /\ Len(stdout) = 1
                /\ Len(stdout[k].bytes) = 4 + C13_Length(stdout[k].kind)
                /\ DecodedLength(stdout[k].bytes)
                   = Uint32(C13_Length(stdout[k].kind))
                /\ PayloadLength(stdout[k].bytes)
                   = C13_Length(stdout[k].kind)
                /\ \A b \in 1..Len(stdout[k].bytes) :
                      stdout[k].bytes[b] \in 0..255
    /\ enc.stage = "prefixed"
       => /\ Len(enc.prefix) = 4
          /\ \A b \in 1..4 : enc.prefix[b] \in 0..255
          /\ DecodedLength(enc.prefix) = enc.size

\* An RGB24 frame of a padded 7 x 8 capture: 168 payload bytes.
C13_Witness ==
    /\ enc.stage = "captured"
    /\ enc.capture_width = 7
    /\ enc.capture_height = 8
    /\ enc.capture_stride = 8
    /\ Len(stdout) = 1
    /\ stdout[1].kind = "rgb24"
    /\ Len(stdout[1].bytes) = 172
    /\ SubSeq(stdout[1].bytes, 1, 4) = <<0, 0, 0, 168>>

----------------------------------------------------------------------------
(* C14 *)

\* Bit n of a byte, bit 0 the least significant.
Bit(byte, n) == (byte \div (2 ^ n)) % 2

FrameOfKind(kind) ==
    stdout[CHOOSE k \in 1..Len(stdout) : stdout[k].kind = kind].bytes

BothMonoFrames ==
    /\ enc.stage = "captured"
    /\ Len(stdout) = 2
    /\ \E k \in 1..2 : stdout[k].kind = "mono"
    /\ \E k \in 1..2 : stdout[k].kind = "mono_rotate_flip"

\* C14: for width and height multiples of 8, every stride >= width and every
\* threshold and dithering configuration, the bit of pixel (x, y) in the
\* row-major frame (payload byte y * (width / 8) + x / 8, bit x mod 8) equals
\* its bit in the column-major frame (payload byte x * (height / 8) + y / 8,
\* bit y mod 8).
C14_TransposeConsistency ==
    (/\ BothMonoFrames
     /\ enc.capture_width % 8 = 0
     /\ enc.capture_height % 8 = 0)
    => LET w   == enc.capture_width
           h   == enc.capture_height
           row == FrameOfKind("mono")
           col == FrameOfKind("mono_rotate_flip")
       IN  \A x \in 0..(w - 1), y \in 0..(h - 1) :
              Bit(row[4 + y * (w \div 8) + x \div 8 + 1], x % 8)
              = Bit(col[4 + x * (h \div 8) + y \div 8 + 1], y % 8)

\* A dithered 16 x 8 frame with row padding, encoded both ways, with pixels
\* on and pixels off in its first byte.
C14_Witness ==
    /\ BothMonoFrames
    /\ enc.capture_width = 16
    /\ enc.capture_height = 8
    /\ enc.capture_stride = 17
    /\ info.dithering = 1
    /\ FrameOfKind("mono")[5] \notin {0, 255}
    /\ FrameOfKind("mono") # FrameOfKind("mono_rotate_flip")

----------------------------------------------------------------------------
(* The threshold at work: the consumer sends threshold commands and one    *)
(* pixel is put through to_1bpp() after each of them.                       *)

\* Pixels with each component at, next to and away from the values a
\* threshold component can take.
ThresholdPixels ==
    {r + 32 * g + 2048 * b :
        r \in {0, 1, 3, 4, 30, 31},
        g \in {0, 1, 6, 7, 62, 63},
        b \in {0, 1, 3, 4, 31}}

ThresholdArguments == {0, 7, 8, 24, 25, 31, 32, 128, 247, 248, 255}

InitThreshold ==
    /\ \E p \in ThresholdPixels, t1 \in ThresholdArguments,
          t2 \in ThresholdArguments :
          /\ t1 <= t2
          /\ enc = [stage |-> "pixel", pixel |-> p, todo |-> <<t1, t2>>,
                    seen |-> <<>>]
    /\ info = InitializedInfo
    /\ pc = "poll"
    /\ errmsg = ""
    /\ stdin = <<>>
    /\ stdin_open = TRUE
    /\ stdout = <<CapabilityFrame>>
    /\ backend = "initialized"
    /\ nwritten = 0
    /\ call = NoCall
    /\ unparsed = [bytes |-> <<>>, owed |-> 0]
    /\ reassembly = NoReassembly

\* handle_stdin() receives a threshold command; to_1bpp() then decides the
\* pixel.
ThresholdCommand ==
    /\ enc.stage = "pixel"
    /\ enc.todo # <<>>
    /\ LET t == Head(enc.todo)
           r == handle_stdin(info, <<0, 0, 0, 2, 6, t>>)
       IN  /\ info' = r.info
           /\ enc' = [enc EXCEPT
                        !.todo = Tail(@),
                        !.seen = Append(@, [threshold |-> t,
                                            bit |-> to_1bpp(r.info,
                                                            enc.pixel)])]
    /\ UNCHANGED <<pc, errmsg, stdin, stdin_open, stdout, backend, nwritten,
                   call, unparsed, reassembly>>

NextThreshold == ThresholdCommand

SpecThreshold == InitThreshold /\ [][NextThreshold]_vars

----------------------------------------------------------------------------
(* C15 *)

\* C15: for every pixel and thresholds t1 <= t2, a pixel that is off after
\* set_mono_threshold(t1) is off after set_mono_threshold(t2).
C15_ThresholdMonotone ==
    (enc.stage = "pixel" /\ Len(enc.seen) = 2
     /\ enc.seen[1].threshold <= enc.seen[2].threshold)
    => (enc.seen[1].bit = 0 => enc.seen[2].bit = 0)

\* A pixel that is on at the lower threshold and off at the higher one.
C15_Witness ==
    /\ enc.stage = "pixel"
    /\ Len(enc.seen) = 2
    /\ enc.seen[1].threshold < enc.seen[2].threshold
    /\ enc.seen[1].bit = 1
    /\ enc.seen[2].bit = 0

----------------------------------------------------------------------------
(* C16 *)

\* The 5-bit red, 6-bit green and 5-bit blue component of a pixel.
Red(p) == p % 32

Green(p) == (p \div 32) % 64

Blue(p) == (p \div 2048) % 32

\* C16: after command 6 with argument t a pixel is on exactly when one of
\* its components exceeds its threshold (t >> 3 for the 5-bit components,
\* t >> 2 for green, compared in place); with t = 0 a pixel is on iff it is
\* not 0, with t = 255 the thresholds are 31, 63 << 5 and 31 << 11 and no
\* pixel is on.
C16_ThresholdRule ==
    enc.stage = "pixel"
    => \A k \in 1..Len(enc.seen) :
          LET t  == enc.seen[k].threshold
              p  == enc.pixel
              on == enc.seen[k].bit = 1
          IN  /\ enc.seen[k].bit \in {0, 1}
              /\ on <=> \/ Red(p) > t \div 8
                        \/ Green(p) > t \div 4
                        \/ Blue(p) > t \div 8
              /\ t = 0 => (on <=> p # 0)
              /\ t = 255 => ~on
              /\ (t = 255 /\ k = Len(enc.seen))
                 => /\ info.mono_threshold_r5 = 31
                    /\ info.mono_threshold_g6 = 2016
                    /\ info.mono_threshold_b5 = 63488

\* Only the green component of the pixel exceeds its threshold.
C16_Witness ==
    /\ enc.stage = "pixel"
    /\ Len(enc.seen) = 1
    /\ enc.seen[1].threshold = 25
    /\ enc.pixel = 32 * 7 + 3 + 2048 * 3
    /\ enc.seen[1].bit = 1
    /\ info.mono_threshold_g6 = 192

----------------------------------------------------------------------------
(* C17 *)

\* A frame was written since the latest handle_stdin call.
FrameWritten == call.status # "none" /\ Len(stdout) = call.frames + 1

\* C17: every image frame is preceded by exactly one capture() made after
\* the handle_stdin call that requested it, and dithering_apply() runs
\* exactly once, between that capture and the write, when the frame is
\* monochrome (either order) and the dithering mode is not zero; it does not
\* run for RGB24 and RGB565 frames or with dithering off.
C17_CaptureThenDither ==
    /\ call.events \in {<<>>,
                        <<"capture">>,
                        <<"capture", "write_stdout">>,
                        <<"capture", "dithering_apply">>,
                        <<"capture", "dithering_apply", "write_stdout">>}
    /\ FrameWritten
       => LET f == Last(stdout) IN
          /\ f.kind \in {"rgb24", "rgb565", "mono", "mono_rotate_flip"}
          /\ Len(Snapshots) >= 1
          /\ call.events =
                IF f.kind \in {"mono", "mono_rotate_flip"} /\ f.dithering # 0
                THEN <<"capture", "dithering_apply", "write_stdout">>
                ELSE <<"capture", "write_stdout">>
    /\ (call.events # <<>> /\ Last(call.events) = "write_stdout")
       => FrameWritten
    /\ (Len(call.events) >= 2 /\ call.events[2] = "dithering_apply")
       => /\ info.dithering # 0
          /\ \/ info.send_snapshot \in {4, 5}
             \/ FrameWritten /\ Last(stdout).kind \in {"mono", "mono_rotate_flip"}

\* A dithered column-major frame has been written.
C17_Witness ==
    /\ pc = "poll"
    /\ FrameWritten
    /\ Last(stdout).kind = "mono_rotate_flip"
    /\ Last(stdout).dithering = 1
    /\ call.events = <<"capture", "dithering_apply", "write_stdout">>

----------------------------------------------------------------------------
(* C18 *)

\* C18: a snapshot is encoded with the threshold and dithering mode in
\* effect when the handle_stdin call that requested it returns: a code-6 or
\* code-7 command behind the snapshot command in the same call applies to
\* it, and a frame once written is not touched by later calls.
C18_ConfigAtReturn ==
    /\ [](FrameWritten
          => /\ call.status = "returned"
             /\ call.log # <<>>
             /\ Last(stdout).threshold
                = <<Last(call.log).post.mono_threshold_r5,
                    Last(call.log).post.mono_threshold_g6,
                    Last(call.log).post.mono_threshold_b5>>
             /\ Last(stdout).dithering = Last(call.log).post.dithering)
    /\ [][/\ Len(stdout') >= Len(stdout)
          /\ \A k \in 1..Len(stdout) : stdout'[k] = stdout[k]]_vars

\* A monochrome snapshot requested ahead of a threshold command in the same
\* call is encoded with the new threshold.
C18_Witness ==
    /\ pc = "poll"
    /\ FrameWritten
    /\ Len(call.log) = 2
    /\ call.log[1].code = 4
    /\ call.log[2].code = 6
    /\ call.log[2].arg = 255
    /\ Last(stdout).kind = "mono"
    /\ Last(stdout).threshold = <<31, 2016, 63488>>

----------------------------------------------------------------------------
(* C19 *)

\* C19: every call of handle_stdin terminates: each turn of its loop
\* strictly decreases request_buffer_ix, whatever the length byte.
C19_LoopTerminates ==
    /\ pc # "hung"
    /\ call.status # "hung"
    /\ \A k \in 1..Len(call.log) : call.log[k].ixnext < call.log[k].ix

----------------------------------------------------------------------------
(* C20 *)

\* C20: while dispatching a command handle_stdin reads only bytes of that
\* command that have been received: every index read is below
\* request_buffer_ix and below L + 4, the code at index 4 is read only when
\* L >= 1 and the argument at index 5 only when L >= 2.
C20_ReadsWithinCommand ==
    \A k \in 1..Len(call.log) :
        LET e == call.log[k] IN
        /\ \A n \in e.read : n < e.ix /\ n < e.L + 4
        /\ 4 \in e.read => e.L >= 1
        /\ 5 \in e.read => e.L >= 2

====
